---- MODULE Spec2Model ----
(***************************************************************************)
(* Model of the aerovert-de web client: the ObstacleProvider context       *)
(* (fetch, filter state, the memoised filtering engine) and the pure       *)
(* analytics of the dashboard that read the filtered collection.           *)
(*                                                                         *)
(* JavaScript strings that the code lower-cases, upper-cases or searches   *)
(* are sequences of one-character strings, so that toLowerCase,            *)
(* toUpperCase and includes are computed and not assumed.  An optional     *)
(* property is <<>> when absent and <<v>> when present.  A radius is kept  *)
(* in tenths of a nautical mile.                                           *)
(*                                                                         *)
(* fetchState is the state of the promise of the fetch effect: pending,    *)
(* fulfilled or rejected.  filterType and minAltitude are the filter state *)
(* of the standalone ObstacleMap component, which fetches /obstacles by    *)
(* itself into its own data and loading; a session of that component is    *)
(* StandaloneSpec, and there data and loading are its state of those       *)
(* names.                                                                  *)
(*                                                                         *)
(* now is the wall clock that new Date() reads, in seconds of local time   *)
(* since 1970-01-01T00:00:00; a Date is such a number of seconds.  The     *)
(* start_date strings of the model have the form YYYY-MM-DDTHH:mm:ss,      *)
(* which Date reads as local time, and daylight saving is left out.  The   *)
(* clock moves only in ClockSpec; in the other specifications the session  *)
(* is short enough for every reading to give the same day.                 *)
(***************************************************************************)
EXTENDS Integers, Sequences, FiniteSets, TLC

VARIABLES data, stats, loading,
          minHeight, maxHeight, activeTypes, searchTerm, showUnlitOnly,
          regionFilter, filteredData,
          vfrProfile, compositionData, kpis, criticalHazards, scatterData,
          complianceData, freshnessCount, monthlyActivity,
          fetchState, filterType, minAltitude,
          now

\* the memoised products of the dashboard page
dashboardVars == <<vfrProfile, compositionData, kpis, criticalHazards,
                   scatterData, complianceData, freshnessCount,
                   monthlyActivity>>

vars == <<data, stats, loading, minHeight, maxHeight, activeTypes,
          searchTerm, showUnlitOnly, regionFilter, filteredData,
          dashboardVars, fetchState, filterType, minAltitude, now>>

(***************************************************************************)
(* Bounds of the model.                                                    *)
(***************************************************************************)
MaxLen == 2

\* the longest collection of the compliance-score runs
MaxScoreLen == 40

\* the days the wall clock moves on during a session of ClockSpec
MaxTicks == 1

(***************************************************************************)
(* JavaScript string primitives.                                           *)
(***************************************************************************)
UpperLetters == <<"A","B","C","D","E","F","G","H","I","J","K","L","M",
                  "N","O","P","Q","R","S","T","U","V","W","X","Y","Z">>

LowerLetters == <<"a","b","c","d","e","f","g","h","i","j","k","l","m",
                  "n","o","p","q","r","s","t","u","v","w","x","y","z">>

OtherChars == {" ", "0", "1", "2", "3", "4", "5", "6", "7", "8", "9"}

Chars == {UpperLetters[i] : i \in 1..26} \cup {LowerLetters[i] : i \in 1..26}
             \cup OtherChars

\* the lower-case and the upper-case form of every character
LowerOf ==
    [c \in Chars |->
        IF \E i \in 1..26 : UpperLetters[i] = c
        THEN LowerLetters[CHOOSE i \in 1..26 : UpperLetters[i] = c]
        ELSE c]

UpperOf ==
    [c \in Chars |->
        IF \E i \in 1..26 : LowerLetters[i] = c
        THEN UpperLetters[CHOOSE i \in 1..26 : LowerLetters[i] = c]
        ELSE c]

toLowerCase(s) == [i \in 1..Len(s) |-> LowerOf[s[i]]]

toUpperCase(s) == [i \in 1..Len(s) |-> UpperOf[s[i]]]

includes(s, sub) ==
    \E i \in 0..(Len(s) - Len(sub)) : SubSeq(s, i + 1, i + Len(sub)) = sub

\* a || d for an optional number: absent and 0 are both falsy
OrNum(o, d) == IF o = <<>> THEN d ELSE IF o[1] = 0 THEN d ELSE o[1]

\* a || d for an optional string: absent and "" are both falsy
OrStr(o, d) == IF o = <<>> THEN d ELSE IF o[1] = <<>> THEN d ELSE o[1]

(***************************************************************************)
(* JavaScript Date: parsing a date-time string, the calendar fields of a   *)
(* time value, and day arithmetic.                                         *)
(***************************************************************************)
Digits == <<"0","1","2","3","4","5","6","7","8","9">>

DigitChars == {Digits[i] : i \in 1..10}

IsDigit(c) == c \in DigitChars

\* the value of every digit
DigitValueOf == [c \in DigitChars |->
                    (CHOOSE i \in 1..10 : Digits[i] = c) - 1]

DigitValue(c) == DigitValueOf[c]

\* the number written by the two, or the four, digits of s from position i
TwoDigits(s, i) == 10 * DigitValue(s[i]) + DigitValue(s[i + 1])

FourDigits(s, i) == 100 * TwoDigits(s, i) + TwoDigits(s, i + 2)

SecondsPerDay == 86400

\* the time value of an Invalid Date
NaN == -1

IsLeapYear(y) == (y % 4 = 0 /\ y % 100 # 0) \/ y % 400 = 0

DaysInMonth(y, m) ==
    IF m = 2 THEN (IF IsLeapYear(y) THEN 29 ELSE 28)
    ELSE IF m \in {4, 6, 9, 11} THEN 30 ELSE 31

\* MakeDay: the number of days from 1970-01-01 to the day d of month m
\* (from 1) of year y
MakeDay(y, m, d) ==
    LET yy == IF m <= 2 THEN y - 1 ELSE y
        era == yy \div 400
        yoe == yy - era * 400
        mp == IF m > 2 THEN m - 3 ELSE m + 9
        doy == (153 * mp + 2) \div 5 + d - 1
        doe == yoe * 365 + yoe \div 4 - yoe \div 100 + doy
    IN  era * 146097 + doe - 719468

\* the year and the month (from 1) of the day number z
CivilFromDays(z) ==
    LET zz == z + 719468
        era == zz \div 146097
        doe == zz - era * 146097
        yoe == (doe - doe \div 1460 + doe \div 36524 - doe \div 146096)
                   \div 365
        doy == doe - (365 * yoe + yoe \div 4 - yoe \div 100)
        mp == (5 * doy + 2) \div 153
        m == IF mp < 10 THEN mp + 3 ELSE mp - 9
    IN  [year |-> yoe + era * 400 + (IF m <= 2 THEN 1 ELSE 0), month |-> m]

\* new Date(s) for a string: the time value of YYYY-MM-DDTHH:mm:ss read as
\* local time, and an Invalid Date for a string of another shape (the
\* model has no string of another date format)
ParseDate(s) ==
    IF /\ Len(s) = 19
       /\ \A i \in {1, 2, 3, 4, 6, 7, 9, 10, 12, 13, 15, 16, 18, 19} :
              IsDigit(s[i])
       /\ s[5] = "-" /\ s[8] = "-" /\ s[11] = "T"
       /\ s[14] = ":" /\ s[17] = ":"
    THEN LET y == FourDigits(s, 1)
             m == TwoDigits(s, 6)
             d == TwoDigits(s, 9)
             hh == TwoDigits(s, 12)
             mi == TwoDigits(s, 15)
             ss == TwoDigits(s, 18)
         IN  IF /\ m \in 1..12 /\ d >= 1 /\ d <= DaysInMonth(y, m)
                /\ hh < 24 /\ mi < 60 /\ ss < 60
             THEN MakeDay(y, m, d) * SecondsPerDay + hh * 3600 + mi * 60 + ss
             ELSE NaN
    ELSE NaN

\* Date.prototype.getFullYear and getMonth (from 0) of a valid time value
getFullYear(t) == CivilFromDays(t \div SecondsPerDay).year

getMonth(t) == CivilFromDays(t \div SecondsPerDay).month - 1

\* d.setDate(d.getDate() - n): the same time of day, n days earlier
SetDateBack(t, n) == t - n * SecondsPerDay

(***************************************************************************)
(* String literals of the code.                                            *)
(***************************************************************************)
EMPTY == <<>>
UNK == <<"U","N","K">>
ALL == <<"A","L","L">>
EDWW == <<"E","D","W","W">>
kw_unlit == <<"u","n","l","i","t">>
kw_lgt_out == <<"l","g","t"," ","o","u","t">>
kw_out_of_service ==
    <<"o","u","t"," ","o","f"," ","s","e","r","v","i","c","e">>
kw_out == <<"o","u","t">>

DefaultTypes == <<"WIND TURBINE", "CRANE", "MAST", "LIGHTS">>

(***************************************************************************)
(* The inputs of the model: obstacle features as /obstacles can return     *)
(* them, and the values the controls can pass to the setters.              *)
(***************************************************************************)
txt_unlit_turbine == <<"u","n","l","i","t"," ","t","u","r","b","i","n","e">>
txt_lit_crane == <<"l","i","t"," ","c","r","a","n","e">>
txt_UNLIT_MAST == <<"U","N","L","I","T"," ","M","A","S","T">>
txt_lgt_out == <<"l","g","t"," ","o","u","t">>
txt_out_of_service ==
    <<"o","u","t"," ","o","f"," ","s","e","r","v","i","c","e">>
txt_check_out == <<"c","h","e","c","k"," ","o","u","t">>
fir_edww == <<"e","d","w","w">>
EDGG == <<"E","D","G","G">>
term_Crane == <<"C","r","a","n","e">>
term_unk == <<"u","n","k">>
date_now == <<"2","0","2","6","-","0","1","-","0","5","T","1","2",":","0","0",":","0","0">>
date_2026_01_01 == <<"2","0","2","6","-","0","1","-","0","1","T","0","0",":","0","0",":","0","0">>
date_2025_12_31 == <<"2","0","2","5","-","1","2","-","3","1","T","2","3",":","5","9",":","5","9">>
date_2025_01_01 == <<"2","0","2","5","-","0","1","-","0","1","T","0","0",":","0","0",":","0","0">>
date_2024_02_29 == <<"2","0","2","4","-","0","2","-","2","9","T","0","8",":","3","0",":","0","0">>
date_2024_05_15 == <<"2","0","2","4","-","0","5","-","1","5","T","1","2",":","0","0",":","0","0">>
date_2024_12_31 == <<"2","0","2","4","-","1","2","-","3","1","T","2","3",":","5","9",":","5","9">>
date_2023_06_01 == <<"2","0","2","3","-","0","6","-","0","1","T","0","0",":","0","0",":","0","0">>
date_2025_03_15 == <<"2","0","2","5","-","0","3","-","1","5","T","0","8",":","3","0",":","0","0">>

Feature(id, type, max_fl, text, fir, radius, start_date) ==
    [id |-> id, type |-> type, max_fl |-> max_fl, text |-> text,
     fir |-> fir, radius |-> radius, start_date |-> start_date]

F_turbine == Feature(<<"W","1">>, "WIND TURBINE", <<5>>,
                     <<txt_unlit_turbine>>, <<EDWW>>, <<5>>,
                     <<date_2026_01_01>>)
F_crane   == Feature(<<"C","2">>, "CRANE", <<10>>,
                     <<txt_lit_crane>>, <<>>, <<2>>,
                     <<date_2025_12_31>>)
F_unknown == Feature(<<"U","3">>, "UNKNOWN", <<99>>, <<>>, <<>>, <<0>>,
                     <<>>)
F_wide    == Feature(<<"M","4">>, "MAST", <<10>>,
                     <<txt_out_of_service>>, <<EDWW>>, <<16>>,
                     <<date_2025_01_01>>)
F_ghost   == Feature(<<"C","5">>, "CRANE", <<999>>,
                     <<txt_lit_crane>>, <<EDWW>>, <<1>>,
                     <<date_2024_02_29>>)
F_tower   == Feature(<<"T","6">>, "TOWER", <<>>,
                     <<txt_lgt_out>>, <<EDGG>>, <<>>,
                     <<EMPTY>>)
F_lights  == Feature(<<"L","7">>, "LIGHTS", <<25>>,
                     <<txt_out_of_service>>, <<EDWW>>, <<>>,
                     <<date_2024_05_15>>)
F_mast    == Feature(<<"M","8">>, "MAST", <<10>>,
                     <<txt_UNLIT_MAST>>, <<fir_edww>>, <<15>>,
                     <<date_2024_12_31>>)
F_checked == Feature(<<"L","9">>, "LIGHTS", <<5>>,
                     <<txt_check_out>>, <<>>, <<>>,
                     <<date_2023_06_01>>)
F_beacon  == Feature(<<"L","0">>, "LIGHTS", <<15>>,
                     <<txt_lgt_out>>, <<EDGG>>, <<>>,
                     <<date_2025_03_15>>)

\* the order in which /obstacles lists the records
Dataset == <<F_turbine, F_crane, F_unknown, F_wide, F_ghost, F_tower,
             F_lights, F_mast, F_checked, F_beacon>>

\* new Date(s) for every start_date string of the dataset
DateOf ==
    [s \in {OrStr(Dataset[i].start_date, EMPTY) : i \in 1..Len(Dataset)} |->
        ParseDate(s)]

newDate(s) == DateOf[s]

\* the feature lists of at most MaxLen records of the dataset, in its order
FeatureLists ==
    {[i \in DOMAIN ix |-> Dataset[ix[i]]] :
        ix \in UNION {{x \in [1..n -> 1..Len(Dataset)] :
                          \A i, j \in 1..n : i < j => x[i] < x[j]} : n \in 0..MaxLen}}

Collection(features) == [type |-> "FeatureCollection", features |-> features]

Collections == {Collection(s) : s \in FeatureLists}

EDMM == <<"E","D","M","M">>

\* the decoded /stats response: more regions than the sidebar lists
StatsSet ==
    {[total |-> 10, by_fir |-> <<[name |-> EDWW, value |-> 4],
                                 [name |-> EDGG, value |-> 3],
                                 [name |-> EDMM, value |-> 2],
                                 [name |-> UNK, value |-> 1]>>]}

NULL == [null |-> TRUE]

MinSliderValues == {0, 1000}
MaxSliderValues == {500, 10000}
ToggleInputs == {"CRANE", "UNKNOWN"}
SearchInputs == {EMPTY, term_Crane, term_unk}
RegionInputs == {ALL, EDWW, fir_edww}

(***************************************************************************)
(* The filtering engine: the callback of data.features.filter, one         *)
(* operator per step, in the order of the code.                            *)
(***************************************************************************)
RadiusLimit == 15

\* faulty variant: the type test is left out
PassesHygiene_RadiusOnly(p) ==
    ~(OrNum(p.radius, 0) > RadiusLimit)

PassesHygiene(p) ==
    /\ ~(OrNum(p.radius, 0) > RadiusLimit)
    /\ ~(p.type = "UNKNOWN")

\* faulty variant: a feature without fir is not compared
PassesRegion_OnlyIfPresent(p, region) ==
    IF region # ALL /\ p.fir # <<>>
    THEN toUpperCase(OrStr(p.fir, UNK)) = region
    ELSE TRUE

PassesRegion(p, region) ==
    IF region # ALL
    THEN toUpperCase(OrStr(p.fir, UNK)) = region
    ELSE TRUE

PassesType(p, types) ==
    \E i \in 1..Len(types) : types[i] = p.type

\* faulty variant: both bounds exclusive
PassesHeight_Exclusive(p, lo, hi) ==
    LET heightFt == OrNum(p.max_fl, 0) * 100
    IN  ~(heightFt <= lo \/ heightFt >= hi)

PassesHeight(p, lo, hi) ==
    LET heightFt == OrNum(p.max_fl, 0) * 100
    IN  ~(heightFt < lo \/ heightFt > hi)

PassesUnlit(p, unlitOnly) ==
    IF unlitOnly
    THEN LET text == OrStr(p.text, EMPTY)
         IN  ~(/\ ~includes(text, kw_unlit)
               /\ ~includes(text, kw_lgt_out)
               /\ ~includes(text, kw_out_of_service))
    ELSE TRUE

PassesSearch(p, term) ==
    IF term # EMPTY
    THEN LET searchLower == toLowerCase(term)
             text == toLowerCase(OrStr(p.text, EMPTY))
             id == toLowerCase(OrStr(<<p.id>>, EMPTY))
             fir == toLowerCase(OrStr(p.fir, EMPTY))
         IN  ~(/\ ~includes(text, searchLower)
               /\ ~includes(id, searchLower)
               /\ ~includes(fir, searchLower))
    ELSE TRUE

Params(lo, hi, types, term, unlitOnly, region) ==
    [minHeight |-> lo, maxHeight |-> hi, activeTypes |-> types,
     searchTerm |-> term, showUnlitOnly |-> unlitOnly,
     regionFilter |-> region]

Keep(p, P) ==
    /\ PassesHygiene(p)
    /\ PassesRegion(p, P.regionFilter)
    /\ PassesType(p, P.activeTypes)
    /\ PassesHeight(p, P.minHeight, P.maxHeight)
    /\ PassesUnlit(p, P.showUnlitOnly)
    /\ PassesSearch(p, P.searchTerm)

RECURSIVE Reverse(_)
Reverse(s) == IF s = <<>> THEN <<>> ELSE Append(Reverse(Tail(s)), Head(s))

\* faulty variant: the survivors come out in reverse order
FilterFeatures_Reversed(features, P) ==
    LET Test(p) == Keep(p, P) IN Reverse(SelectSeq(features, Test))

\* faulty variant: the first survivor is lost
FilterFeatures_SkipFirst(features, P) ==
    LET Test(p) == Keep(p, P)
        kept == SelectSeq(features, Test)
    IN  IF kept = <<>> THEN kept ELSE Tail(kept)

FilterFeatures(features, P) ==
    LET Test(p) == Keep(p, P) IN SelectSeq(features, Test)

\* the useMemo of filteredData: null for a null collection, else the
\* collection with its features filtered
FilteredData(d, P) ==
    IF d = NULL THEN NULL
    ELSE [d EXCEPT !.features = FilterFeatures(d.features, P)]

CurrentParams ==
    Params(minHeight, maxHeight, activeTypes, searchTerm, showUnlitOnly,
           regionFilter)

(***************************************************************************)
(* The unlit tests of the consumers of the filtered collection.            *)
(***************************************************************************)
\* kpis: the test that increments unlit
KpiIsUnlit(p) ==
    LET text == toLowerCase(OrStr(p.text, EMPTY))
    IN  includes(text, kw_unlit) \/ includes(text, kw_out_of_service)

\* criticalHazards: the text part of its filter
CriticalTextMatch(p) ==
    LET text == toLowerCase(OrStr(p.text, EMPTY))
    IN  includes(text, kw_unlit) \/ includes(text, kw_out)

\* scatterData: isUnlit, shown as status UNLIT or LIT
ScatterIsUnlit(p) ==
    LET text == toLowerCase(OrStr(p.text, EMPTY))
    IN  includes(text, kw_unlit) \/ includes(text, kw_out_of_service)

\* complianceData: the test that increments unlit
ComplianceIsUnlit(p) ==
    LET text == toLowerCase(OrStr(p.text, EMPTY))
    IN  includes(text, kw_unlit) \/ includes(text, kw_out_of_service)

\* the map marker: isUnlit
MarkerIsUnlit(p) ==
    LET rawText == toLowerCase(OrStr(p.text, EMPTY))
    IN  \/ includes(rawText, kw_unlit)
        \/ includes(rawText, kw_out_of_service)
        \/ includes(rawText, kw_lgt_out)

\* the map marker: isVFRConflict
MarkerIsVFRConflict(p) ==
    LET heightFL == OrNum(p.max_fl, 0)
    IN  heightFL >= 5 /\ heightFL <= 20

(***************************************************************************)
(* IEEE 754 double arithmetic of JavaScript numbers, as far as             *)
(* Math.round((safe / total) * 100) needs it.  A positive double is        *)
(* [bits, exp]: bits is its significand, most significant bit first, read  *)
(* as a natural number, and the value is that number times 2^exp.          *)
(***************************************************************************)
Precision == 53

RECURSIVE BitsToNat(_)
BitsToNat(bits) ==
    IF bits = <<>> THEN 0
    ELSE 2 * BitsToNat(SubSeq(bits, 1, Len(bits) - 1)) + bits[Len(bits)]

StripZeros(bits) ==
    IF \A i \in 1..Len(bits) : bits[i] = 0 THEN <<>>
    ELSE SubSeq(bits,
                CHOOSE i \in 1..Len(bits) :
                    bits[i] = 1 /\ \A j \in 1..(i - 1) : bits[j] = 0,
                Len(bits))

PadLeft(bits, n) == [i \in 1..(n - Len(bits)) |-> 0] \o bits

\* long arithmetic on a bit string goes limb by limb, LimbWidth bits each
LimbWidth == 15

LimbBase == 32768

RECURSIVE Pow2(_)
Pow2(k) == IF k = 0 THEN 1 ELSE 2 * Pow2(k - 1)

LimbCount(bits) == (Len(bits) + LimbWidth - 1) \div LimbWidth

ToLimbs(bits) ==
    LET padded == PadLeft(bits, LimbCount(bits) * LimbWidth)
    IN  [j \in 1..LimbCount(bits) |->
            BitsToNat(SubSeq(padded, (j - 1) * LimbWidth + 1, j * LimbWidth))]

FromLimbs(limbs) ==
    [i \in 1..(Len(limbs) * LimbWidth) |->
        (limbs[((i - 1) \div LimbWidth) + 1]
            \div Pow2(LimbWidth - 1 - ((i - 1) % LimbWidth))) % 2]

\* limbs j..Len(limbs) times m plus c, the carry out first
RECURSIVE MulAddFrom(_, _, _, _)
MulAddFrom(limbs, m, c, j) ==
    IF j > Len(limbs) THEN <<c>>
    ELSE LET rest == MulAddFrom(limbs, m, c, j + 1)
             v == limbs[j] * m + rest[1]
         IN  <<v \div LimbBase, v % LimbBase>> \o Tail(rest)

\* bits * m + c as a bit string without leading zeros, for m, c < 2^15
MulAdd(bits, m, c) == StripZeros(FromLimbs(MulAddFrom(ToLimbs(bits), m, c, 1)))

Increment(bits) == MulAdd(bits, 1, 1)

\* round to nearest, ties to even: bits with <<guard>> and sticky below it
RoundToPrecision(bits, exp, guard, sticky) ==
    IF guard = 1 /\ (sticky \/ bits[Len(bits)] = 1)
    THEN LET up == Increment(bits)
         IN  IF Len(up) > Len(bits)
             THEN [bits |-> SubSeq(up, 1, Len(bits)), exp |-> exp + 1]
             ELSE [bits |-> up, exp |-> exp]
    ELSE [bits |-> bits, exp |-> exp]

\* the next n limbs of the binary expansion of r / d, for r < d < 2^16
RECURSIVE QuotientLimbs(_, _, _)
QuotientLimbs(r, d, n) ==
    IF n = 0 THEN <<>>
    ELSE <<(r * LimbBase) \div d>>
             \o QuotientLimbs((r * LimbBase) % d, d, n - 1)

\* the remainder left after those n limbs
RECURSIVE QuotientRest(_, _, _)
QuotientRest(r, d, n) ==
    IF n = 0 THEN r ELSE QuotientRest((r * LimbBase) % d, d, n - 1)

\* the zero bits that follow the binary point in r / d, for 0 < r < d
RECURSIVE LeadingZeros(_, _)
LeadingZeros(r, d) ==
    IF 2 * r >= d THEN 0 ELSE 1 + LeadingZeros(2 * r, d)

\* a / b for naturals 0 < a < b < 2^16, correctly rounded
NumDivide(a, b) ==
    LET z == LeadingZeros(a, b)
        r == a * Pow2(z)
        expansion == FromLimbs(QuotientLimbs(r, b, 4))
        bits == SubSeq(expansion, 1, Precision)
        guard == expansion[Precision + 1]
        sticky == \/ \E i \in (Precision + 2)..Len(expansion) :
                        expansion[i] = 1
                  \/ QuotientRest(r, b, 4) # 0
    IN  RoundToPrecision(bits, 0 - (z + Precision), guard, sticky)

\* x * 100, correctly rounded
NumTimes100(x) ==
    LET product == MulAdd(x.bits, 100, 0)
        extra == Len(product) - Precision
        kept == SubSeq(product, 1, Precision)
        guard == product[Precision + 1]
        sticky == \E i \in (Precision + 2)..Len(product) : product[i] = 1
    IN  IF extra <= 0 THEN [bits |-> product, exp |-> x.exp]
        ELSE RoundToPrecision(kept, x.exp + extra, guard, sticky)

\* Math.round of a positive double below 2^31: the nearest integer, a tie
\* going up
MathRound(x) ==
    LET point == Len(x.bits) + x.exp
    IN  IF point < 0 THEN 0
        ELSE BitsToNat(SubSeq(x.bits, 1, point)) + x.bits[point + 1]

(***************************************************************************)
(* The dashboard's engines that the properties read.                       *)
(***************************************************************************)
\* kpis
Kpis(fd) ==
    IF fd = NULL THEN [total |-> 0, unlit |-> 0, vfrConflict |-> 0]
    ELSE LET InBand(p) == OrNum(p.max_fl, 0) >= 5 /\ OrNum(p.max_fl, 0) <= 20
         IN  [total |-> Len(fd.features),
              unlit |-> Len(SelectSeq(fd.features, KpiIsUnlit)),
              vfrConflict |-> Len(SelectSeq(fd.features, InBand))]

\* Math.round((safe / total) * 100) for 0 <= safe <= total, total > 0
ComplianceRate(safe, total) ==
    IF safe = 0 THEN 0
    ELSE IF safe = total THEN 100
    ELSE MathRound(NumTimes100(NumDivide(safe, total)))

\* complianceData.rate
ComplianceScore(fd) ==
    IF fd = NULL THEN 0
    ELSE LET total == Len(fd.features)
             unlit == Len(SelectSeq(fd.features, ComplianceIsUnlit))
             safe == total - unlit
         IN  IF total = 0 THEN 100 ELSE ComplianceRate(safe, total)

\* complianceData, without the chart
ComplianceData(fd) == [rate |-> ComplianceScore(fd)]

\* criticalHazards: the callback of its filter
CriticalFilter(p) ==
    CriticalTextMatch(p) \/ OrNum(p.max_fl, 0) > 20

\* faulty variant: descending by max_fl, equal keys in reverse order
SortByMaxFlDescending_TiesReversed(list) ==
    LET n == Len(list)
        key == [i \in 1..n |-> OrNum(list[i].max_fl, 0)]
        pos == [i \in 1..n |->
                   1 + Cardinality({j \in 1..n : key[j] > key[i]})
                     + Cardinality({j \in (i + 1)..n : key[j] = key[i]})]
    IN  [k \in 1..n |-> list[CHOOSE i \in 1..n : pos[i] = k]]

\* Array.prototype.sort with (a, b) => (b.max_fl || 0) - (a.max_fl || 0):
\* descending by max_fl, and stable, so equal keys keep their order
SortByMaxFlDescending(list) ==
    LET n == Len(list)
        key == [i \in 1..n |-> OrNum(list[i].max_fl, 0)]
        pos == [i \in 1..n |->
                   1 + Cardinality({j \in 1..n : key[j] > key[i]})
                     + Cardinality({j \in 1..(i - 1) : key[j] = key[i]})]
    IN  [k \in 1..n |-> list[CHOOSE i \in 1..n : pos[i] = k]]

HazardLimit == 15

\* list.slice(0, end)
SliceFromStart(list, end) ==
    SubSeq(list, 1, IF Len(list) < end THEN Len(list) ELSE end)

\* criticalHazards
CriticalHazards(fd) ==
    IF fd = NULL THEN <<>>
    ELSE SliceFromStart(
             SortByMaxFlDescending(SelectSeq(fd.features, CriticalFilter)),
             HazardLimit)

\* faulty variant: the upper limit of a bucket belongs to the next one
BucketIndex_Exclusive(fl) ==
    IF fl < 5 THEN 1
    ELSE IF fl < 10 THEN 2
    ELSE IF fl < 20 THEN 3
    ELSE IF fl < 30 THEN 4
    ELSE 5

\* vfrProfile: the index (from 1) of the bucket a flight level falls in
BucketIndex(fl) ==
    IF fl <= 5 THEN 1
    ELSE IF fl <= 10 THEN 2
    ELSE IF fl <= 20 THEN 3
    ELSE IF fl <= 30 THEN 4
    ELSE 5

BucketNames == <<"0-500ft", "500-1k", "1k-2k", "2k-3k", "> 3k">>

BucketLevels == <<5, 10, 20, 30, 999>>

\* vfrProfile
VfrProfile(fd) ==
    IF fd = NULL THEN <<>>
    ELSE LET InBucket(b, wind) ==
                 LET Test(p) == /\ BucketIndex(OrNum(p.max_fl, 0)) = b
                                /\ (p.type = "WIND TURBINE") = wind
                 IN  Len(SelectSeq(fd.features, Test))
         IN  [b \in 1..5 |->
                 [name |-> BucketNames[b], fl |-> BucketLevels[b],
                  wind |-> InBucket(b, TRUE), other |-> InBucket(b, FALSE)]]

CompositionKeys == <<"WIND TURBINE", "CRANE", "MAST", "OTHER">>

CompositionNames == <<"Wind Turbines", "Cranes", "Masts", "Other">>

\* faulty variant: the rows with value 0 are returned too
CompositionData_ZeroFilled(fd) ==
    IF fd = NULL THEN <<>>
    ELSE LET KeyOf(p) ==
                 IF \E k \in 1..4 : CompositionKeys[k] = p.type
                 THEN p.type ELSE "OTHER"
             Count(k) ==
                 LET Test(p) == KeyOf(p) = CompositionKeys[k]
                 IN  Len(SelectSeq(fd.features, Test))
         IN  [k \in 1..4 |->
                 [name |-> CompositionNames[k], value |-> Count(k)]]

\* compositionData, without the colours: a type that is no key of counts
\* goes to OTHER, and so does the type OTHER itself
CompositionData(fd) ==
    IF fd = NULL THEN <<>>
    ELSE LET KeyOf(p) ==
                 IF \E k \in 1..4 : CompositionKeys[k] = p.type
                 THEN p.type ELSE "OTHER"
             Count(k) ==
                 LET Test(p) == KeyOf(p) = CompositionKeys[k]
                 IN  Len(SelectSeq(fd.features, Test))
             rows == [k \in 1..4 |->
                         [name |-> CompositionNames[k], value |-> Count(k)]]
             Positive(d) == d.value > 0
         IN  SelectSeq(rows, Positive)

\* scatterData: typeMap[t] || 5
TypeOrdinal(t) ==
    IF t = "WIND TURBINE" THEN 1
    ELSE IF t = "CRANE" THEN 2
    ELSE IF t = "MAST" THEN 3
    ELSE IF t = "LIGHTS" THEN 4
    ELSE 5

\* scatterData, without the colours
ScatterData(fd) ==
    IF fd = NULL THEN <<>>
    ELSE [i \in 1..Len(fd.features) |->
             LET p == fd.features[i]
             IN  [id |-> i - 1,
                  x |-> TypeOrdinal(p.type),
                  y |-> OrNum(p.max_fl, 0),
                  type |-> p.type,
                  status |-> IF ScatterIsUnlit(p) THEN "UNLIT" ELSE "LIT",
                  name |-> p.id]]

FreshnessWindowDays == 600

\* freshnessCount, with the reading t of the clock that new Date() returns
FreshnessCount(fd, t) ==
    IF fd = NULL THEN 0
    ELSE LET sevenDaysAgo == SetDateBack(t, FreshnessWindowDays)
             Fresh(p) ==
                 IF OrStr(p.start_date, EMPTY) = EMPTY THEN FALSE
                 ELSE LET date == newDate(p.start_date[1])
                      IN  date # NaN /\ date >= sevenDaysAgo
         IN  Len(SelectSeq(fd.features, Fresh))

MonthNames == <<"Jan", "Feb", "Mar", "Apr", "May", "Jun",
                "Jul", "Aug", "Sep", "Oct", "Nov", "Dec">>

ActivityYear == 2025

\* faulty variant: the year of the date is not looked at
MonthIndex_AnyYear(p) ==
    IF OrStr(p.start_date, EMPTY) = EMPTY THEN -1
    ELSE LET date == newDate(p.start_date[1])
         IN  IF date # NaN THEN getMonth(date) ELSE -1

\* monthlyActivity: the index of the entry of monthCounts that the callback
\* of forEach increments for a feature, and -1 when it increments none
MonthIndex(p) ==
    IF OrStr(p.start_date, EMPTY) = EMPTY THEN -1
    ELSE LET date == newDate(p.start_date[1])
         IN  IF date # NaN /\ getFullYear(date) = ActivityYear
             THEN getMonth(date)
             ELSE -1

\* monthlyActivity
MonthlyActivity(fd) ==
    IF fd = NULL THEN <<>>
    ELSE LET n == Len(fd.features)
             index == [k \in 1..n |-> MonthIndex(fd.features[k])]
         IN  [m \in 1..12 |->
                 [name |-> MonthNames[m],
                  count |-> Cardinality({k \in 1..n : index[k] = m - 1})]]

TopN == 3

\* faulty variant: the regions are those of the filtered features
RegionalRisk_OfFiltered(st) ==
    IF filteredData = NULL THEN <<>>
    ELSE SliceFromStart(
             [i \in 1..Len(filteredData.features) |->
                 [name |-> toUpperCase(OrStr(filteredData.features[i].fir, UNK)),
                  value |-> 1]],
             TopN)

\* the sidebar's Regional Risk list: stats && stats.by_fir?.slice(0, 3),
\* each entry shown with its name and value
RegionalRisk(st) ==
    IF st = NULL THEN <<>> ELSE SliceFromStart(st.by_fir, TopN)

(***************************************************************************)
(* The provider: state after the first render, then one action per         *)
(* handler.  A render follows every state change, and the memo of          *)
(* filteredData is recomputed in it.                                       *)
(***************************************************************************)
\* the reading of the wall clock when the page is opened
ClockStart == ParseDate(date_now)

Init ==
    /\ data = NULL
    /\ stats = NULL
    /\ loading = TRUE
    /\ minHeight = 0
    /\ maxHeight = 50000
    /\ activeTypes = DefaultTypes
    /\ searchTerm = EMPTY
    /\ showUnlitOnly = FALSE
    /\ regionFilter = ALL
    /\ filteredData = NULL
    /\ vfrProfile = VfrProfile(NULL)
    /\ compositionData = CompositionData(NULL)
    /\ kpis = Kpis(NULL)
    /\ criticalHazards = CriticalHazards(NULL)
    /\ scatterData = ScatterData(NULL)
    /\ complianceData = ComplianceData(NULL)
    /\ freshnessCount = FreshnessCount(NULL, ClockStart)
    /\ monthlyActivity = MonthlyActivity(NULL)
    /\ fetchState = "pending"
    /\ filterType = "ALL"
    /\ minAltitude = 0
    /\ now = ClockStart

\* faulty variant: the region filter is missing from the dependency list
FilterDeps_NoRegion ==
    <<data, minHeight, maxHeight, activeTypes, searchTerm, showUnlitOnly>>

\* the dependency list of the useMemo of filteredData
FilterDeps ==
    <<data, minHeight, maxHeight, activeTypes, searchTerm, showUnlitOnly,
      regionFilter>>

\* the useMemo hooks of the dashboard page, each with the dependency list
\* [filteredData]: recomputed when the provider has made a new filteredData
DashboardRender ==
    IF FilterDeps' # FilterDeps
    THEN /\ vfrProfile' = VfrProfile(filteredData')
         /\ compositionData' = CompositionData(filteredData')
         /\ kpis' = Kpis(filteredData')
         /\ criticalHazards' = CriticalHazards(filteredData')
         /\ scatterData' = ScatterData(filteredData')
         /\ complianceData' = ComplianceData(filteredData')
         /\ freshnessCount' = FreshnessCount(filteredData', now')
         /\ monthlyActivity' = MonthlyActivity(filteredData')
    ELSE UNCHANGED dashboardVars

\* the render that follows a state change: the useMemo of filteredData runs
\* its callback when a dependency has changed and otherwise keeps its value;
\* the dashboard page, a consumer, renders after it
Render ==
    /\ filteredData' =
           IF FilterDeps' # FilterDeps
           THEN FilteredData(data', Params(minHeight', maxHeight',
                                           activeTypes', searchTerm',
                                           showUnlitOnly', regionFilter'))
           ELSE filteredData
    /\ DashboardRender

\* faulty variant: the collection is published without the summary
FetchSuccess_StatsLost(obsData, statsData) ==
    /\ loading = TRUE
    /\ data' = obsData
    /\ loading' = FALSE
    /\ fetchState' = "fulfilled"
    /\ UNCHANGED <<now, stats, minHeight, maxHeight, activeTypes, searchTerm,
                   showUnlitOnly, regionFilter, filterType, minAltitude>>
    /\ Render

\* fetchData: both requests and both decodings succeed; setData, setStats
\* and setLoading run in one tick and React 18 renders once after them
FetchSuccess(obsData, statsData) ==
    /\ loading = TRUE
    /\ data' = obsData
    /\ stats' = statsData
    /\ loading' = FALSE
    /\ fetchState' = "fulfilled"
    /\ UNCHANGED <<now, minHeight, maxHeight, activeTypes, searchTerm,
                   showUnlitOnly, regionFilter, filterType, minAltitude>>
    /\ Render

\* fetchData: a request or a decoding throws; only finally runs
FetchFailure ==
    /\ loading = TRUE
    /\ loading' = FALSE
    /\ fetchState' = "rejected"
    /\ UNCHANGED <<now, data, stats, minHeight, maxHeight, activeTypes,
                   searchTerm, showUnlitOnly, regionFilter, filterType,
                   minAltitude>>
    /\ Render

\* the min slider of the sidebar
SetMinHeight(h) ==
    /\ minHeight' = h
    /\ UNCHANGED <<now, data, stats, loading, maxHeight, activeTypes, searchTerm,
                   showUnlitOnly, regionFilter>>
    /\ UNCHANGED <<fetchState, filterType, minAltitude>>
    /\ Render

\* faulty variant: the right edge of the max slider lifts the limit above
\* every flight level
SetMaxHeight_NoCeiling(val) ==
    /\ maxHeight' = IF val = 10000 THEN 100000 ELSE val
    /\ UNCHANGED <<now, data, stats, loading, minHeight, activeTypes, searchTerm,
                   showUnlitOnly, regionFilter>>
    /\ UNCHANGED <<fetchState, filterType, minAltitude>>
    /\ Render

\* the max slider of the sidebar: the right edge stands for unlimited
SetMaxHeight(val) ==
    /\ maxHeight' = IF val = 10000 THEN 50000 ELSE val
    /\ UNCHANGED <<now, data, stats, loading, minHeight, activeTypes, searchTerm,
                   showUnlitOnly, regionFilter>>
    /\ UNCHANGED <<fetchState, filterType, minAltitude>>
    /\ Render

\* faulty variant: an active type stays active
ToggledTypes_NeverRemove(prev, typeId) ==
    IF \E i \in 1..Len(prev) : prev[i] = typeId
    THEN prev
    ELSE Append(prev, typeId)

\* the functional update of toggleType
ToggledTypes(prev, typeId) ==
    IF \E i \in 1..Len(prev) : prev[i] = typeId
    THEN LET Other(t) == t # typeId IN SelectSeq(prev, Other)
    ELSE Append(prev, typeId)

toggleType(typeId) ==
    /\ activeTypes' = ToggledTypes(activeTypes, typeId)
    /\ UNCHANGED <<now, data, stats, loading, minHeight, maxHeight, searchTerm,
                   showUnlitOnly, regionFilter>>
    /\ UNCHANGED <<fetchState, filterType, minAltitude>>
    /\ Render

SetSearchTerm(s) ==
    /\ searchTerm' = s
    /\ UNCHANGED <<now, data, stats, loading, minHeight, maxHeight, activeTypes,
                   showUnlitOnly, regionFilter>>
    /\ UNCHANGED <<fetchState, filterType, minAltitude>>
    /\ Render

\* faulty variant: the switch filters the stored collection in place
SetShowUnlitOnly_InPlace ==
    /\ showUnlitOnly' = ~showUnlitOnly
    /\ data' = FilteredData(data, Params(minHeight, maxHeight, activeTypes,
                                          searchTerm, ~showUnlitOnly,
                                          regionFilter))
    /\ UNCHANGED <<now, stats, loading, minHeight, maxHeight, activeTypes,
                   searchTerm, regionFilter>>
    /\ UNCHANGED <<fetchState, filterType, minAltitude>>
    /\ Render

\* the unlit switch of the sidebar and of the dashboard
SetShowUnlitOnly ==
    /\ showUnlitOnly' = ~showUnlitOnly
    /\ UNCHANGED <<now, data, stats, loading, minHeight, maxHeight, activeTypes,
                   searchTerm, regionFilter>>
    /\ UNCHANGED <<fetchState, filterType, minAltitude>>
    /\ Render

SetRegionFilter(r) ==
    /\ regionFilter' = r
    /\ UNCHANGED <<now, data, stats, loading, minHeight, maxHeight, activeTypes,
                   searchTerm, showUnlitOnly>>
    /\ UNCHANGED <<fetchState, filterType, minAltitude>>
    /\ Render

Next ==
    \/ \E c \in Collections, s \in StatsSet : FetchSuccess(c, s)
    \/ FetchFailure
    \/ \E h \in MinSliderValues : SetMinHeight(h)
    \/ \E v \in MaxSliderValues : SetMaxHeight(v)
    \/ \E t \in ToggleInputs : toggleType(t)
    \/ \E s \in SearchInputs : SetSearchTerm(s)
    \/ SetShowUnlitOnly
    \/ \E r \in RegionInputs : SetRegionFilter(r)

Spec == Init /\ [][Next]_vars

\* the await of fetchData ends: Promise.all settles, and the decodings with
\* it
FetchSettles ==
    \/ \E c \in Collections, s \in StatsSet : FetchSuccess(c, s)
    \/ FetchFailure

\* a request that was sent is answered or fails
LiveSpec == Spec /\ WF_vars(FetchSettles)

\* a day passes on the wall clock; no state of the page changes and nothing
\* renders
Tick ==
    /\ now < ClockStart + MaxTicks * SecondsPerDay
    /\ now' = now + SecondsPerDay
    /\ UNCHANGED <<data, stats, loading, minHeight, maxHeight, activeTypes,
                   searchTerm, showUnlitOnly, regionFilter, filteredData,
                   dashboardVars, fetchState, filterType, minAltitude>>

ClockNext == Next \/ Tick

\* a session of the provider and the dashboard during which the day changes
ClockSpec == Init /\ [][ClockNext]_vars

(***************************************************************************)
(* The standalone ObstacleMap component: its fetch effect and the setters  *)
(* of its two filters.                                                     *)
(***************************************************************************)
FilterTypeInputs == {"ALL", "WIND", "CRANE"}

MinAltitudeInputs == {0, 5, 50}

\* both then callbacks run: setData and setLoading in one tick
StandaloneFetchSuccess(obsData) ==
    /\ fetchState = "pending"
    /\ data' = obsData
    /\ loading' = FALSE
    /\ fetchState' = "fulfilled"
    /\ UNCHANGED <<now, stats, minHeight, maxHeight, activeTypes, searchTerm,
                   showUnlitOnly, regionFilter, filteredData, filterType,
                   minAltitude, dashboardVars>>

\* fetch or res.json() rejects: the catch callback logs and sets no state
StandaloneFetchFailure ==
    /\ fetchState = "pending"
    /\ fetchState' = "rejected"
    /\ UNCHANGED <<now, data, stats, loading, minHeight, maxHeight, activeTypes,
                   searchTerm, showUnlitOnly, regionFilter, filteredData,
                   filterType, minAltitude, dashboardVars>>

SetFilterType(t) ==
    /\ filterType' = t
    /\ UNCHANGED <<now, data, stats, loading, minHeight, maxHeight, activeTypes,
                   searchTerm, showUnlitOnly, regionFilter, filteredData,
                   fetchState, minAltitude, dashboardVars>>

SetMinAltitude(a) ==
    /\ minAltitude' = a
    /\ UNCHANGED <<now, data, stats, loading, minHeight, maxHeight, activeTypes,
                   searchTerm, showUnlitOnly, regionFilter, filteredData,
                   fetchState, filterType, dashboardVars>>

StandaloneFetchSettles ==
    \/ \E c \in Collections : StandaloneFetchSuccess(c)
    \/ StandaloneFetchFailure

StandaloneNext ==
    \/ \E c \in Collections : StandaloneFetchSuccess(c)
    \/ StandaloneFetchFailure
    \/ \E t \in FilterTypeInputs : SetFilterType(t)
    \/ \E a \in MinAltitudeInputs : SetMinAltitude(a)

StandaloneSpec ==
    Init /\ [][StandaloneNext]_vars /\ WF_vars(StandaloneFetchSettles)

(***************************************************************************)
(* Vocabulary of the properties.                                           *)
(***************************************************************************)
HasData == data # NULL

Raw == data.features

Filtered == filteredData.features

InList(p, list) == \E i \in 1..Len(list) : list[i] = p

RadiusOf(p) == IF p.radius = <<>> THEN 0 ELSE p.radius[1]

AltitudeOf(p) == IF p.max_fl = <<>> THEN 0 ELSE p.max_fl[1]

DescriptionOf(p) == IF p.text = <<>> THEN EMPTY ELSE p.text[1]

RegionOf(p) ==
    IF p.fir = <<>> THEN UNK ELSE IF p.fir[1] = EMPTY THEN UNK ELSE p.fir[1]

IsHygienic(p) == RadiusOf(p) <= 15 /\ p.type # "UNKNOWN"

RECURSIVE IsSubsequence(_, _)
IsSubsequence(a, b) ==
    IF a = <<>> THEN TRUE
    ELSE IF b = <<>> THEN FALSE
    ELSE IF Head(a) = Head(b) THEN IsSubsequence(Tail(a), Tail(b))
    ELSE IsSubsequence(a, Tail(b))

\* C1: whatever the filter parameters, the filtered collection holds no
\* feature of radius above 1.5 NM (absent radius is 0) and none of type
\* UNKNOWN.
C1_HygieneInvariant ==
    HasData =>
        \A i \in 1..Len(Filtered) :
            /\ ~(RadiusOf(Filtered[i]) > 15)
            /\ Filtered[i].type # "UNKNOWN"

\* a raw feature of type UNKNOWN passes every user-chosen step (its type
\* was toggled on) and the filter has run over it
C1_Witness ==
    /\ HasData
    /\ \E i \in 1..Len(Raw) :
          /\ Raw[i].type = "UNKNOWN"
          /\ PassesRegion(Raw[i], regionFilter)
          /\ PassesType(Raw[i], activeTypes)
          /\ PassesHeight(Raw[i], minHeight, maxHeight)
          /\ PassesUnlit(Raw[i], showUnlitOnly)
          /\ PassesSearch(Raw[i], searchTerm)
          /\ ~InList(Raw[i], Filtered)

\* C2: the filtered list is a sub-sequence of the raw list: nothing added,
\* nothing duplicated, relative order kept.
C2_SubSequence ==
    HasData => IsSubsequence(Filtered, Raw)

\* two features survive a filter with a non-default parameter
C2_Witness ==
    /\ HasData
    /\ Len(Filtered) >= 2
    /\ regionFilter # ALL

\* C3: filtering the filtered list again with the same parameters gives
\* the same list.
C3_Idempotent ==
    HasData => FilterFeatures(Filtered, CurrentParams) = Filtered

\* the filter dropped one feature and kept another
C3_Witness ==
    /\ HasData
    /\ Len(Filtered) >= 1
    /\ Len(Filtered) < Len(Raw)
    /\ showUnlitOnly

FullTypeSet == {"WIND TURBINE", "CRANE", "MAST", "LIGHTS"}

\* C4: with every type active and height, search, unlit and region
\* unconstrained (the defaults), the filtered list is exactly the hygienic
\* part of the raw list.
C4_RoundTrip ==
    ( /\ HasData
      /\ {activeTypes[i] : i \in 1..Len(activeTypes)} = FullTypeSet
      /\ minHeight = 0
      /\ maxHeight = 50000
      /\ searchTerm = EMPTY
      /\ ~showUnlitOnly
      /\ regionFilter = ALL )
    => Filtered = SelectSeq(Raw, IsHygienic)

\* isUnlit of the specification: on the lower-cased description
IsUnlit(p) ==
    LET d == toLowerCase(DescriptionOf(p))
    IN  \/ includes(d, kw_unlit)
        \/ includes(d, kw_lgt_out)
        \/ includes(d, kw_out_of_service)

\* C5: a feature that passes the other steps is kept iff unlitOnly is off
\* or its lower-cased description holds one of the three keywords.
C5_UnlitStep ==
    HasData =>
        \A i \in 1..Len(Raw) :
            ( /\ PassesHygiene(Raw[i])
              /\ PassesRegion(Raw[i], regionFilter)
              /\ PassesType(Raw[i], activeTypes)
              /\ PassesHeight(Raw[i], minHeight, maxHeight)
              /\ PassesSearch(Raw[i], searchTerm) )
            => (InList(Raw[i], Filtered) <=> (showUnlitOnly => IsUnlit(Raw[i])))

\* C6: the filter's unlit step, kpis, complianceScore, the correlation
\* matrix, criticalHazards and the map marker give every filtered feature
\* the same unlit verdict.
C6_SingleUnlitDefinition ==
    HasData =>
        \A i \in 1..Len(Filtered) :
            LET p == Filtered[i]
                v == PassesUnlit(p, TRUE)
            IN  /\ KpiIsUnlit(p) = v
                /\ ComplianceIsUnlit(p) = v
                /\ ScatterIsUnlit(p) = v
                /\ CriticalTextMatch(p) = v
                /\ MarkerIsUnlit(p) = v

EqualIgnoringCase(a, b) == toLowerCase(a) = toLowerCase(b)

C8_WitnessCrossed ==
    /\ HasData
    /\ minHeight > maxHeight
    /\ \E i \in 1..Len(Raw) :
          /\ PassesHygiene(Raw[i])
          /\ PassesRegion(Raw[i], regionFilter)
          /\ PassesType(Raw[i], activeTypes)
          /\ PassesUnlit(Raw[i], showUnlitOnly)
          /\ PassesSearch(Raw[i], searchTerm)

\* C9: with a non-empty search term a feature that passes the other steps
\* is kept iff the lower-cased term is part of its lower-cased description,
\* id or region, an absent region being UNK; an empty term drops nothing.
C9_SearchStep ==
    HasData =>
        \A i \in 1..Len(Raw) :
            ( /\ PassesHygiene(Raw[i])
              /\ PassesRegion(Raw[i], regionFilter)
              /\ PassesType(Raw[i], activeTypes)
              /\ PassesHeight(Raw[i], minHeight, maxHeight)
              /\ PassesUnlit(Raw[i], showUnlitOnly) )
            => ( InList(Raw[i], Filtered) <=>
                   \/ searchTerm = EMPTY
                   \/ includes(toLowerCase(DescriptionOf(Raw[i])),
                               toLowerCase(searchTerm))
                   \/ includes(toLowerCase(Raw[i].id), toLowerCase(searchTerm))
                   \/ includes(toLowerCase(RegionOf(Raw[i])),
                               toLowerCase(searchTerm)) )

(***************************************************************************)
(* Compliance score over larger collections: /obstacles returns n records, *)
(* the first k of them unlit wind turbines and the others lit cranes, with *)
(* max_fl cycling through 20, 30 and 10, and the controls used are those   *)
(* that change the proportion of unlit records in the filtered collection. *)
(***************************************************************************)
ScoreFeature(i, unlit) ==
    Feature(<<"N", Digits[(i \div 10) + 1], Digits[(i % 10) + 1]>>,
            IF unlit THEN "WIND TURBINE" ELSE "CRANE",
            <<10 * (1 + (i % 3))>>,
            IF unlit THEN <<txt_unlit_turbine>> ELSE <<txt_lit_crane>>,
            <<EDWW>>, <<>>, <<>>)

ScoreCollection(n, k) == Collection([i \in 1..n |-> ScoreFeature(i, i <= k)])

ScoreNext ==
    \/ \E n \in 0..MaxScoreLen, s \in StatsSet :
          \E k \in 0..n : FetchSuccess(ScoreCollection(n, k), s)
    \/ SetShowUnlitOnly
    \/ toggleType("WIND TURBINE")

ScoreSpec == Init /\ [][ScoreNext]_vars

\* the nearest integer to n / d, a tie going up
RoundedRatio(n, d) == (2 * n + d) \div (2 * d)

\* C10: the compliance score of a non-empty filtered collection is
\* round(100 * (total - unlitCount) / total), an integer from 0 to 100, and
\* that of an empty one is 100.
C10_ComplianceScore ==
    HasData =>
        LET total == Len(Filtered)
            unlitCount == Kpis(filteredData).unlit
            score == ComplianceScore(filteredData)
        IN  IF total = 0 THEN score = 100
            ELSE /\ score = RoundedRatio(100 * (total - unlitCount), total)
                 /\ score \in 0..100

\* C11: appending one more unlit feature (isUnlit of the specification) that
\* passes the current filter to a non-empty filtered collection never
\* raises the compliance score.
C11_Monotonic ==
    (HasData /\ Filtered # <<>>) =>
        \A i \in 1..Len(Dataset) :
            (IsUnlit(Dataset[i]) /\ Keep(Dataset[i], CurrentParams))
            => ComplianceScore(Collection(Append(Filtered, Dataset[i])))
                   <= ComplianceScore(filteredData)

\* C12: criticalHazards returns at most 15 items, and every item it returns
\* is unlit (isUnlit of the specification) or has maxAltitude above 20.
C12_CriticalHazards ==
    LET hazards == CriticalHazards(filteredData)
    IN  /\ Len(hazards) <= HazardLimit
        /\ \A i \in 1..Len(hazards) :
              IsUnlit(hazards[i]) \/ AltitudeOf(hazards[i]) > 20

\* isVfrConflict of the specification: maxAltitude within [5, 20]
IsVfrConflict(p) == AltitudeOf(p) >= 5 /\ AltitudeOf(p) <= 20

\* C13: kpis.total is the number of filtered features, kpis.unlit the number
\* of them that isUnlit holds for, kpis.vfrConflict the number of them with
\* maxAltitude in [5, 20]; the marker's VFR flag uses the same band; so
\* neither count exceeds the total.
C13_Kpis ==
    HasData =>
        LET k == Kpis(filteredData)
        IN  /\ k.total = Len(Filtered)
            /\ k.unlit = Len(SelectSeq(Filtered, IsUnlit))
            /\ k.vfrConflict = Len(SelectSeq(Filtered, IsVfrConflict))
            /\ \A i \in 1..Len(Filtered) :
                  MarkerIsVFRConflict(Filtered[i]) <=> IsVfrConflict(Filtered[i])
            /\ k.unlit <= k.total
            /\ k.vfrConflict <= k.total

\* C14: while unlitOnly is on, kpis counts every filtered feature as unlit
\* (unlit = total), and the compliance score of a non-empty filtered
\* collection is 0.
C14_UnlitOnly ==
    (HasData /\ showUnlitOnly) =>
        /\ Kpis(filteredData).unlit = Kpis(filteredData).total
        /\ Filtered # <<>> => ComplianceScore(filteredData) = 0

EmptyCollection == Collection(<<>>)

\* C15: while the filtered collection is null, kpis, the compliance score,
\* composition, vertical saturation, criticalHazards and the correlation
\* matrix are what they are for an empty collection: zero counts, 100 %
\* compliance, the same lists and histograms.
C15_NullAsEmpty ==
    filteredData = NULL =>
        /\ Kpis(filteredData) = Kpis(EmptyCollection)
        /\ Kpis(filteredData) = [total |-> 0, unlit |-> 0, vfrConflict |-> 0]
        /\ ComplianceScore(filteredData) = ComplianceScore(EmptyCollection)
        /\ ComplianceScore(filteredData) = 100
        /\ CompositionData(filteredData) = CompositionData(EmptyCollection)
        /\ VfrProfile(filteredData) = VfrProfile(EmptyCollection)
        /\ CriticalHazards(filteredData) = CriticalHazards(EmptyCollection)
        /\ ScatterData(filteredData) = ScatterData(EmptyCollection)

\* C16: the fetch that the session started leads to loading = false,
\* whether it succeeds or fails; and when it has failed, the collection and
\* the filtered collection are null.
C16_FetchOutcome ==
    /\ (fetchState = "pending") ~> (loading = FALSE)
    /\ [](fetchState = "rejected" => (data = NULL /\ filteredData = NULL))

C19_RegionalRisk ==
    /\ [](LET risk == RegionalRisk(stats)
          IN  /\ Len(risk) <= 3
              /\ stats # NULL =>
                    \A i \in 1..Len(risk) : risk[i] = stats.by_fir[i])
    /\ [][CurrentParams' # CurrentParams
             => RegionalRisk(stats') = RegionalRisk(stats)]_vars

\* the summary lists more than three regions, three are shown, and the
\* filter parameters have narrowed filteredData
C19_Witness ==
    /\ stats # NULL
    /\ Len(stats.by_fir) > 3
    /\ Len(RegionalRisk(stats)) = 3
    /\ HasData
    /\ regionFilter # ALL
    /\ searchTerm # EMPTY
    /\ Len(Filtered) < Len(Raw)

\* C20: a step that changes a filter parameter or recomputes filteredData
\* leaves the raw collection as it is, every filtered feature is one of the
\* raw features, and the raw collection changes only in the step in which
\* the fetch completes, from null, so at most once.
C20_RawImmutable ==
    /\ [](HasData => \A i \in 1..Len(Filtered) : InList(Filtered[i], Raw))
    /\ [][/\ (CurrentParams' # CurrentParams \/ loading' = loading)
                => data' = data
          /\ data' # data
                => /\ data = NULL
                   /\ fetchState = "pending"
                   /\ fetchState' = "fulfilled"]_vars

\* the collection arrived with two features and the filter, with parameters
\* off their defaults, keeps only a part of them
C20_Witness ==
    /\ HasData
    /\ Len(Raw) >= 2
    /\ showUnlitOnly
    /\ searchTerm # EMPTY
    /\ Len(Filtered) < Len(Raw)

\* the display category of a type: one of the three named types, or OTHER
DisplayCategory(t) ==
    IF t \in {"WIND TURBINE", "CRANE", "MAST"} THEN t ELSE "OTHER"

DisplayName(cat) ==
    IF cat = "WIND TURBINE" THEN "Wind Turbines"
    ELSE IF cat = "CRANE" THEN "Cranes"
    ELSE IF cat = "MAST" THEN "Masts"
    ELSE "Other"

RECURSIVE SumOfValues(_)
SumOfValues(rows) ==
    IF rows = <<>> THEN 0 ELSE Head(rows).value + SumOfValues(Tail(rows))

\* rows is the composition of features: one row per category that occurs,
\* with its count, and no other row
IsCompositionOf(rows, features) ==
    /\ \A i \in 1..Len(rows) : rows[i].value > 0
    /\ SumOfValues(rows) = Len(features)
    /\ \A cat \in {"WIND TURBINE", "CRANE", "MAST", "OTHER"} :
          LET InCat(p) == DisplayCategory(p.type) = cat
              n == Len(SelectSeq(features, InCat))
              Named(r) == r.name = DisplayName(cat)
              named == SelectSeq(rows, Named)
          IN  IF n = 0 THEN named = <<>>
              ELSE named = <<[name |-> DisplayName(cat), value |-> n]>>

\* C21: composition has one row for each of WIND TURBINE, CRANE, MAST and
\* OTHER (every other type, LIGHTS and free-form ones too) that occurs among
\* the features, none for a category that does not occur, the counts are
\* positive and sum to the number of features.  Stated of the dashboard's
\* composition of filteredData and of the function applied to the fetched
\* collection, where free-form types occur.
C21_Composition ==
    HasData =>
        /\ IsCompositionOf(compositionData, Filtered)
        /\ IsCompositionOf(CompositionData(data), Raw)

\* the filtered features are a LIGHTS and a CRANE: two rows, two omitted
C21_Witness ==
    /\ HasData
    /\ Len(Filtered) = 2
    /\ \E i \in 1..2 : Filtered[i].type = "LIGHTS"
    /\ \E i \in 1..2 : Filtered[i].type = "CRANE"
    /\ Len(compositionData) = 2

\* a free-form type among the fetched features goes to OTHER
C21_WitnessFreeForm ==
    /\ HasData
    /\ \E i \in 1..Len(Raw) : Raw[i].type = "TOWER"
    /\ \E i \in 1..Len(CompositionData(data)) :
          CompositionData(data)[i].name = "Other"

\* C22: criticalHazards lists the features its filter keeps in
\* non-increasing order of maxAltitude (absent = 0), those of equal
\* maxAltitude in their order in the filtered collection, and the
\* truncation keeps the first 15 items of that order: every item left out
\* comes after every item kept.
C22_HazardOrder ==
    HasData =>
        LET c == SelectSeq(Filtered, CriticalFilter)
            h == criticalHazards
            n == Len(h)
            at(k) == CHOOSE j \in 1..Len(c) : c[j] = h[k]
            Before(i, j) ==
                \/ AltitudeOf(c[i]) > AltitudeOf(c[j])
                \/ AltitudeOf(c[i]) = AltitudeOf(c[j]) /\ i < j
        IN  /\ n = (IF Len(c) < HazardLimit THEN Len(c) ELSE HazardLimit)
            /\ \A k \in 1..n : \E j \in 1..Len(c) : c[j] = h[k]
            /\ \A k \in 1..(n - 1) :
                  AltitudeOf(h[k]) >= AltitudeOf(h[k + 1])
            /\ \A k \in 1..(n - 1) :
                  AltitudeOf(h[k]) = AltitudeOf(h[k + 1]) => at(k) < at(k + 1)
            /\ \A j \in 1..Len(c) :
                  (\A k \in 1..n : at(k) # j)
                  => \A k \in 1..n : Before(at(k), j)

\* more than 15 features pass the filter of criticalHazards, the 15 kept
\* have two altitudes and a tie, and the first of them is not the first
\* feature of the filtered collection
C22_Witness ==
    /\ HasData
    /\ Len(SelectSeq(Filtered, CriticalFilter)) > HazardLimit
    /\ Len(criticalHazards) = HazardLimit
    /\ AltitudeOf(criticalHazards[1]) > AltitudeOf(criticalHazards[HazardLimit])
    /\ AltitudeOf(criticalHazards[1]) = AltitudeOf(criticalHazards[2])
    /\ criticalHazards[1] # SelectSeq(Filtered, CriticalFilter)[1]

\* the band of a maxAltitude: <= 5, <= 10, <= 20, <= 30, > 30
BandOf(alt) ==
    CHOOSE b \in 1..5 :
        /\ b < 5 => alt <= <<5, 10, 20, 30>>[b]
        /\ b > 1 => alt > <<5, 10, 20, 30>>[b - 1]

\* bands is the vertical saturation of features
IsSaturationOf(bands, features) ==
    /\ Len(bands) = 5
    /\ [b \in 1..5 |-> bands[b].name]
          = <<"0-500ft", "500-1k", "1k-2k", "2k-3k", "> 3k">>
    /\ \A b \in 1..4 : bands[b].fl < bands[b + 1].fl
    /\ \A b \in 1..5 :
          LET Wind(p) == BandOf(AltitudeOf(p)) = b /\ p.type = "WIND TURBINE"
              Other(p) == BandOf(AltitudeOf(p)) = b /\ p.type # "WIND TURBINE"
          IN  /\ bands[b].wind = Len(SelectSeq(features, Wind))
              /\ bands[b].other = Len(SelectSeq(features, Other))
    /\ bands[1].wind + bands[1].other + bands[2].wind + bands[2].other
         + bands[3].wind + bands[3].other + bands[4].wind + bands[4].other
         + bands[5].wind + bands[5].other = Len(features)

\* C23: verticalSaturation over a non-null collection returns five bands in
\* ascending altitude order (maxAltitude <= 5, <= 10, <= 20, <= 30, > 30);
\* each feature is counted in the band of its maxAltitude (absent = 0), in
\* the wind sub-count if its type is WIND TURBINE and in the other sub-count
\* if not, so the ten sub-counts sum to the number of features.  Stated of
\* the dashboard's profile of filteredData and of the function applied to
\* the fetched collection, where altitudes above 30 occur.
C23_VerticalSaturation ==
    HasData =>
        /\ IsSaturationOf(vfrProfile, Filtered)
        /\ IsSaturationOf(VfrProfile(data), Raw)

\* a wind turbine at exactly 5 and another feature at exactly 10 are
\* filtered: each is in the band its altitude is the upper limit of
C23_Witness ==
    /\ HasData
    /\ Len(Filtered) = 2
    /\ \E i \in 1..2 : /\ Filtered[i].type = "WIND TURBINE"
                       /\ AltitudeOf(Filtered[i]) = 5
    /\ \E i \in 1..2 : /\ Filtered[i].type # "WIND TURBINE"
                       /\ AltitudeOf(Filtered[i]) = 10
    /\ vfrProfile[1].wind = 1
    /\ vfrProfile[2].other = 1

\* validFrom of a feature: present when start_date is a non-empty string
HasValidFrom(p) == p.start_date # <<>> /\ p.start_date[1] # EMPTY

ValidFromOf(p) == newDate(p.start_date[1])

SevenDays == 7 * SecondsPerDay

\* C24: freshnessCount is the number of filtered features whose validFrom is
\* on or after now minus 7 days; a feature without validFrom is not
\* counted, and the count is at most the number of filtered features.
C24_Freshness ==
    HasData =>
        LET Recent(p) == HasValidFrom(p) /\ ValidFromOf(p) >= now - SevenDays
        IN  /\ freshnessCount = Len(SelectSeq(Filtered, Recent))
            /\ freshnessCount <= Len(Filtered)

\* the year and the month written in a date string
WrittenYear(s) == FourDigits(s, 1)

WrittenMonth(s) == TwoDigits(s, 6)

RECURSIVE SumOfCounts(_)
SumOfCounts(rows) ==
    IF rows = <<>> THEN 0 ELSE Head(rows).count + SumOfCounts(Tail(rows))

\* rows is the monthly activity of features in the year 2025
IsMonthlyActivityOf(rows, features) ==
    /\ Len(rows) = 12
    /\ [m \in 1..12 |-> rows[m].name]
          = <<"Jan", "Feb", "Mar", "Apr", "May", "Jun",
              "Jul", "Aug", "Sep", "Oct", "Nov", "Dec">>
    /\ \A m \in 1..12 :
          LET InMonth(p) == /\ HasValidFrom(p)
                            /\ WrittenYear(p.start_date[1]) = 2025
                            /\ WrittenMonth(p.start_date[1]) = m
          IN  rows[m].count = Len(SelectSeq(features, InMonth))
    /\ SumOfCounts(rows) <= Len(features)

\* C25: monthlyActivity over a non-null collection returns 12 entries named
\* Jan to Dec in that order; entry m is the number of features whose
\* validFrom is a date of month m of 2025; a feature with validFrom in
\* another year or without validFrom is in no entry, so the entries sum to
\* at most the number of features.  Stated of the dashboard's histogram of
\* filteredData and of the function applied to the fetched collection.
C25_MonthlyActivity ==
    HasData =>
        /\ IsMonthlyActivityOf(monthlyActivity, Filtered)
        /\ IsMonthlyActivityOf(MonthlyActivity(data), Raw)

\* the last second of 2025 and the first second of 2026 are filtered: one
\* is counted in Dec and the other in no entry
C25_Witness ==
    /\ HasData
    /\ Len(Filtered) = 2
    /\ \E i \in 1..2 : Filtered[i].start_date = <<date_2025_12_31>>
    /\ \E i \in 1..2 : Filtered[i].start_date = <<date_2026_01_01>>
    /\ monthlyActivity[12].count = 1
    /\ SumOfCounts(monthlyActivity) = 1

\* typeOrdinal of the specification
TypeOrdinalOf(t) ==
    CASE t = "WIND TURBINE" -> 1
      [] t = "CRANE" -> 2
      [] t = "MAST" -> 3
      [] t = "LIGHTS" -> 4
      [] OTHER -> 5

\* C26: correlationMatrix has one tuple per filtered feature, in collection
\* order, with x = typeOrdinal(type), y = maxAltitude (absent = 0) and
\* status = isUnlit(f) (isUnlit of the specification); the filtered
\* collection is decided by the filter parameters alone, typeOrdinal having
\* no part in it.
C26_CorrelationMatrix ==
    HasData =>
        /\ Len(scatterData) = Len(Filtered)
        /\ \A i \in 1..Len(Filtered) :
              /\ scatterData[i].name = Filtered[i].id
              /\ scatterData[i].x = TypeOrdinalOf(Filtered[i].type)
              /\ scatterData[i].y = AltitudeOf(Filtered[i])
              /\ (scatterData[i].status = "UNLIT") <=> IsUnlit(Filtered[i])
        /\ filteredData = FilteredData(data, CurrentParams)

\* C27: the filtered collection is a function of the fetched collection and
\* the filter parameters alone, and a run of the analytics on a filtered
\* collection equal to that of the run before gives the results of the run
\* before, whenever it runs: a step that leaves the filtered collection as
\* it was leaves every product of the dashboard as it was.
C27_Determinism ==
    /\ [](HasData => filteredData = FilteredData(data, CurrentParams))
    /\ [][(HasData /\ filteredData' = filteredData)
             => dashboardVars' = dashboardVars]_vars

\* the type tags a caller of toggleType passes in this model and the tags of
\* the filter buttons
TypeTags == {"WIND TURBINE", "CRANE", "MAST", "LIGHTS", "UNKNOWN"}

SetOf(list) == {list[i] : i \in 1..Len(list)}

Without(list, t) == LET Other(x) == x # t IN SelectSeq(list, Other)

\* C28: toggleType(t) removes t from activeTypes when it is there and
\* appends it when it is not; activeTypes never holds a type twice;
\* toggling a type twice gives the same set of active types and the same
\* filteredData; and a step that changes activeTypes changes no other
\* filter parameter and not the fetched collection.
C28_ToggleType ==
    /\ [](\A i, j \in 1..Len(activeTypes) :
              activeTypes[i] = activeTypes[j] => i = j)
    /\ [](\A t \in TypeTags :
              LET twice == ToggledTypes(ToggledTypes(activeTypes, t), t)
              IN  /\ SetOf(twice) = SetOf(activeTypes)
                  /\ HasData =>
                        FilteredData(data, Params(minHeight, maxHeight, twice,
                                                  searchTerm, showUnlitOnly,
                                                  regionFilter))
                            = filteredData)
    /\ [][activeTypes' # activeTypes =>
             /\ \E t \in TypeTags :
                   IF t \in SetOf(activeTypes)
                   THEN activeTypes' = Without(activeTypes, t)
                   ELSE activeTypes' = Append(activeTypes, t)
             /\ UNCHANGED <<minHeight, maxHeight, searchTerm, showUnlitOnly,
                            regionFilter, data>>]_vars

\* CRANE was toggled off and on again: it is now last in activeTypes, the
\* set is that of the defaults, and a crane is among the filtered features
C28_Witness ==
    /\ HasData
    /\ activeTypes = <<"WIND TURBINE", "MAST", "LIGHTS", "CRANE">>
    /\ \E i \in 1..Len(Filtered) : Filtered[i].type = "CRANE"

\* C29: data is null exactly when stats is null; after a failed fetch both
\* are null; and in the state in which loading has become false after a
\* successful fetch both are set.
C29_PublishedTogether ==
    /\ [](data = NULL <=> stats = NULL)
    /\ [](fetchState = "rejected" => data = NULL /\ stats = NULL)
    /\ []((fetchState = "fulfilled" /\ loading = FALSE)
             => data # NULL /\ stats # NULL)
    /\ [][(loading /\ ~loading') =>
             \/ fetchState' = "fulfilled" /\ data' # NULL /\ stats' # NULL
             \/ fetchState' = "rejected" /\ data' = NULL /\ stats' = NULL]_vars

\* the fetch has succeeded: collection and summary are both there and
\* loading is false
C29_Witness ==
    /\ fetchState = "fulfilled"
    /\ loading = FALSE
    /\ data # NULL
    /\ Raw # <<>>
    /\ stats # NULL

\* the fetch has failed: both are null and loading is false
C29_WitnessFailure ==
    /\ fetchState = "rejected"
    /\ loading = FALSE
    /\ data = NULL
    /\ stats = NULL

\* C30: kpis.vfrConflict equals the total, wind and other, of the bands
\* 500-1k and 1k-2k of the vertical saturation of the same filtered
\* collection.
C30_ConflictMatchesBands ==
    HasData =>
        LET Named(b) == b.name \in {"500-1k", "1k-2k"}
            bands == SelectSeq(vfrProfile, Named)
        IN  /\ Len(bands) = 2
            /\ kpis.vfrConflict = bands[1].wind + bands[1].other
                                    + bands[2].wind + bands[2].other

====
